---- MODULE Spec2Model ----
(***************************************************************************)
(* A model of fsm.py: Command, State, DFA and the run-loop of a weighted,  *)
(* command-executing finite automaton.                                     *)
(*                                                                         *)
(* User-defined classes (State and Command subclasses) are collaborator    *)
(* code; the model fixes a small catalogue of them: the S1/S2/C1/C2/C3     *)
(* classes of the module docstring, plus a few that exercise the corner    *)
(* cases (zero weights, the empty weight table of the base class, a        *)
(* pre-hook that switches state, a post-hook that assigns dfa.nexec, two    *)
(* command classes with the same lower-cased name, arguments that are not  *)
(* State/Command subclasses).                                              *)
(***************************************************************************)
EXTENDS Integers, Sequences, FiniteSets, TLC

\* ------------------------------------------------------------------ bounds
MaxAdds == 2        \* add_state calls made before the run
MaxCmds == 2        \* command classes passed to one add_state call
MaxN == 2           \* largest nexec given to DFA(...)
MaxD == 2           \* largest duration given to DFA(...)
MaxDt == 2          \* largest time one step takes (clock ticks)
MaxSteps == 3       \* steps of a duration-bounded run the model follows
MaxW == 2           \* largest weight of the weight tables drawn for choose()

\* None, for nexec, duration and the accumulator (values are naturals)
None == -1

\* ------------------------------------------------------- class catalogue
\* Classes that may be passed as `state` to add_state. "Obj" is a class that
\* is not a subclass of State; "State" is the base class itself.
StateTypes == {"S1", "S2", "S3", "S4", "Z", "State"}
StateArgs == StateTypes \cup {"Obj"}

\* Classes that may be passed as commands. "C3" and "c3" are two distinct
\* classes whose names differ only in case; "Obj" is not a Command subclass.
CmdTypes == {"C1", "C2", "C3", "c3"}
CmdArgs == CmdTypes \cup {"Obj"}

\* issubclass(state, State), issubclass(a, Command)
IsStateSubclass(t) == t \in StateTypes
IsCommandSubclass(t) == t \in CmdTypes

\* cls.__name__.lower()
Lower(t) ==
  CASE t = "S1" -> "s1" [] t = "S2" -> "s2" [] t = "S3" -> "s3"
    [] t = "S4" -> "s4" [] t = "Z" -> "z" [] t = "State" -> "state"
    [] t = "C1" -> "c1" [] t = "C2" -> "c2" [] t = "C3" -> "c3"
    [] t = "c3" -> "c3" [] OTHER -> "obj"

StateNames == {Lower(t) : t \in StateTypes}
CmdNames == {Lower(t) : t \in CmdTypes}

\* The class attribute `weight` of each State class, as the sequence of its
\* entries in the dict's iteration order.
WeightOf(cls) ==
  CASE cls = "S1" -> << [n |-> "c2", w |-> 1], [n |-> "c3", w |-> 1] >>
    [] cls = "S2" -> << [n |-> "c1", w |-> 1], [n |-> "c3", w |-> 1] >>
    [] cls = "S3" -> << [n |-> "c2", w |-> 0], [n |-> "c1", w |-> 2] >>
    [] cls = "S4" -> << [n |-> "c1", w |-> 1] >>
    [] cls = "Z" -> << [n |-> "c3", w |-> 0] >>
    [] OTHER -> << >>

\* The keys of a weight table, and the sum of its values
WeightKeys(w) == {w[i].n : i \in 1..Len(w)}

RECURSIVE TotalWeight(_)
TotalWeight(w) == IF w = << >> THEN 0 ELSE Head(w).w + TotalWeight(Tail(w))

\* The before_<command> / after_<command> methods of each State class:
\* "absent" (not defined), "pass" (returns), "switch" (calls
\* self.switch_state_to(to)), or "set_nexec" (assigns self.dfa.nexec = 1).
NoHook == [op |-> "absent", to |-> ""]
PassHook == [op |-> "pass", to |-> ""]
SwitchHook(name) == [op |-> "switch", to |-> name]
SetNexecHook == [op |-> "set_nexec", to |-> ""]

HookOf(cls, kind, c) ==
  CASE cls = "S1" /\ kind = "before" /\ c \in {"c2", "c3"} -> PassHook
    [] cls = "S1" /\ kind = "after" /\ c = "c2" -> SwitchHook("s2")
    [] cls = "S1" /\ kind = "after" /\ c = "c3" -> PassHook
    [] cls = "S2" /\ kind = "before" /\ c \in {"c1", "c3"} -> PassHook
    [] cls = "S2" /\ kind = "after" /\ c = "c1" -> SwitchHook("s1")
    [] cls = "S2" /\ kind = "after" /\ c = "c3" -> PassHook
    [] cls = "S3" /\ kind = "before" /\ c = "c1" -> SwitchHook("s2")
    [] cls = "S3" /\ kind = "after" /\ c = "c1" -> PassHook
    [] cls = "S4" /\ kind = "after" /\ c = "c1" -> SetNexecHook
    [] OTHER -> NoHook

\* 'before_%s' % cname in dir(self.state)
HasAttr(cls, kind, c) == HookOf(cls, kind, c).op # "absent"

\* What a command class's operation returns for the value it receives.
\* C3 and c3 return None, as the docstring's commands do.
Returns(ctype, params) ==
  CASE ctype = "C1" -> 1
    [] ctype = "C2" -> IF params = None THEN 2 ELSE (params + 2) % 3
    [] OTHER -> None

\* ------------------------------------------------------------ instances
\* A State instance: the class, self.weight (the class attribute), the
\* commands dict (name -> class of the Command instance stored, "" when the
\* key is absent), the `weight` attribute of each stored Command instance
\* (None while unset) and _weight_sum. id tells the instances of one class apart (the first one
\* constructed is 1, the next 2, ...); 0 is no instance.
NoCommands == [c \in CmdNames |-> ""]
NoWeights == [c \in CmdNames |-> None]

NoInst == [id |-> 0, cls |-> "", weight |-> << >>, commands |-> NoCommands,
           cweight |-> NoWeights, weight_sum |-> 0]

\* State.__init__
NewState(cls, id) == [id |-> id, cls |-> cls, weight |-> WeightOf(cls),
                      commands |-> NoCommands, cweight |-> NoWeights,
                      weight_sum |-> 0]

\* _set_weight without the `wname not in self.commands` check: a key that
\* names no imported command is skipped
RECURSIVE SetWeightUnchecked(_, _)
SetWeightUnchecked(inst, i) ==
  IF i > Len(inst.weight) THEN [inst |-> inst, err |-> "none"]
  ELSE LET e == inst.weight[i] IN
       IF inst.commands[e.n] = ""
       THEN SetWeightUnchecked([inst EXCEPT !.weight_sum = @ + e.w], i + 1)
       ELSE SetWeightUnchecked(
              [inst EXCEPT !.weight_sum = @ + e.w, !.cweight[e.n] = e.w],
              i + 1)

set_weight_unchecked(inst) ==
  SetWeightUnchecked([inst EXCEPT !.weight_sum = 0], 1)

\* State._set_weight, from entry i on: the instance and the error raised
RECURSIVE SetWeightFrom(_, _)
SetWeightFrom(inst, i) ==
  IF i > Len(inst.weight) THEN [inst |-> inst, err |-> "none"]
  ELSE LET e == inst.weight[i] IN
       IF inst.commands[e.n] = ""
       THEN [inst |-> inst, err |-> "ValueError"]
       ELSE SetWeightFrom(
              [inst EXCEPT !.weight_sum = @ + e.w, !.cweight[e.n] = e.w],
              i + 1)

set_weight(inst) == SetWeightFrom([inst EXCEPT !.weight_sum = 0], 1)

\* State._import_commands, from argument i on
RECURSIVE ImportFrom(_, _, _)
ImportFrom(inst, argv, i) ==
  IF i > Len(argv) THEN set_weight(inst)
  ELSE IF ~IsCommandSubclass(argv[i])
       THEN [inst |-> inst, err |-> "KeyError"]
       ELSE ImportFrom(
              [inst EXCEPT !.commands[Lower(argv[i])] = argv[i],
                           !.cweight[Lower(argv[i])] = None],
              argv, i + 1)

import_commands(inst, argv) == ImportFrom(inst, argv, 1)

\* choose with a closed interval, `a <= sum + weight`
RECURSIVE ChooseClosed(_, _, _, _)
ChooseClosed(inst, a, i, sum) ==
  IF i > Len(inst.weight) THEN [name |-> "", err |-> "ValueError"]
  ELSE LET wname == inst.weight[i].n IN
       IF inst.commands[wname] = "" THEN [name |-> "", err |-> "KeyError"]
       ELSE IF inst.cweight[wname] = None
            THEN [name |-> "", err |-> "AttributeError"]
            ELSE IF a >= sum /\ a <= sum + inst.cweight[wname]
                 THEN [name |-> wname, err |-> "none"]
                 ELSE ChooseClosed(inst, a, i + 1, sum + inst.cweight[wname])

choose_closed(inst, a) == ChooseClosed(inst, a, 1, 0)

\* choose whose running sum is never advanced
RECURSIVE ChooseNoSum(_, _, _, _)
ChooseNoSum(inst, a, i, sum) ==
  IF i > Len(inst.weight) THEN [name |-> "", err |-> "ValueError"]
  ELSE LET wname == inst.weight[i].n IN
       IF inst.commands[wname] = "" THEN [name |-> "", err |-> "KeyError"]
       ELSE IF inst.cweight[wname] = None
            THEN [name |-> "", err |-> "AttributeError"]
            ELSE IF a >= sum /\ a < sum + inst.cweight[wname]
                 THEN [name |-> wname, err |-> "none"]
                 ELSE ChooseNoSum(inst, a, i + 1, sum)

choose_no_sum(inst, a) == ChooseNoSum(inst, a, 1, 0)

\* State.choose for the draw a (random.random() * _weight_sum, taken down to
\* the integer below it: the weights are integers, so every comparison of
\* the walk gives the same answer for a and for floor(a)).
RECURSIVE ChooseFrom(_, _, _, _)
ChooseFrom(inst, a, i, sum) ==
  IF i > Len(inst.weight) THEN [name |-> "", err |-> "ValueError"]
  ELSE LET wname == inst.weight[i].n IN
       IF inst.commands[wname] = "" THEN [name |-> "", err |-> "KeyError"]
       ELSE IF inst.cweight[wname] = None
            THEN [name |-> "", err |-> "AttributeError"]
            ELSE IF a >= sum /\ a < sum + inst.cweight[wname]
                 THEN [name |-> wname, err |-> "none"]
                 ELSE ChooseFrom(inst, a, i + 1, sum + inst.cweight[wname])

choose(inst, a) == ChooseFrom(inst, a, 1, 0)

\* The values random.random() * _weight_sum can take, as integers
Draws(inst) == IF inst.weight_sum > 0 THEN 0..(inst.weight_sum - 1) ELSE {0}

\* switch_state_to that checks the name and never assigns
switch_state_to_unassigned(registry, current, name) ==
  IF name \notin StateNames \/ registry[name].id = 0
  THEN [state |-> current, err |-> "DoesNotFound"]
  ELSE [state |-> current, err |-> "none"]

\* switch_state_to that assigns self.dfa.states.get(name) before it checks
switch_state_to_assign_first(registry, current, name) ==
  IF name \notin StateNames \/ registry[name].id = 0
  THEN [state |-> NoInst, err |-> "DoesNotFound"]
  ELSE [state |-> registry[name], err |-> "none"]

\* switch_state_to that looks the state up under the wrong key
switch_state_to_wrong_key(registry, current, name) ==
  IF name \notin StateNames \/ registry[name].id = 0
  THEN [state |-> current, err |-> "DoesNotFound"]
  ELSE [state |-> NoInst, err |-> "none"]

\* State.switch_state_to: the DFA's new current state and the error raised
switch_state_to(registry, current, name) ==
  IF name \notin StateNames \/ registry[name].id = 0
  THEN [state |-> current, err |-> "DoesNotFound"]
  ELSE [state |-> registry[name], err |-> "none"]

\* ------------------------------------------------------------- the DFA
VARIABLES
  nexec,          \* DFA.nexec
  duration,       \* DFA.duration
  defines_do,     \* whether the Command subclasses also define a method `do`
  states,         \* DFA.states: name -> State instance (NoInst: no such key)
  state,          \* DFA.state: the current State instance (NoInst: None)
  state_ret,      \* DFA._state_ret: the accumulator
  nadds,          \* add_state calls made so far
  raised,         \* the exception the last call raised to its caller
  fault_at,       \* where it was raised: "add_state", "drive_machine", or
                  \* the part of _next_step ("choose", "before", ...)
  pc,             \* "idle", inside _next_step ("choose", "before", "execute",
                  \* "after"), or "done" (drive_machine returned or raised)
  count,          \* the local `count` of _drive_counter_machine
  begin_at,       \* the local `begin_at` of _drive_time_machine
  end_at,         \* the local `end_at` of _drive_time_machine
  now,            \* time.time()
  cname,          \* the local `cname` of _next_step
  attr_cls,       \* the class whose dir() is the local `attr_list`
  trace,          \* the collaborator calls the current step has made, each
                  \* with the class and id of the State instance it was
                  \* looked up on
  nsteps,         \* _next_step calls begun by the run
  ncalls,         \* command operations that returned
  received,       \* the argument the last command operation was called with
  returned,       \* what the command operation before that one returned
  last_ret,       \* what the last command operation returned
  chosen_from,    \* the State instance whose choose() the last step called
  switched,       \* the name the last step's post-hook switched to, if any
  start,          \* the current state when drive_machine was called
  nexec_given,    \* the nexec given to DFA(...)
  draw,           \* the draw of the last choose() (None before the first)
  acc_at_step,    \* the accumulator when the last step began
  zero_dt,        \* whether a step of the run took no measurable time
  join_result     \* what StateMachine.join() raised to its caller ("" while
                  \* it was not called, "none" when it returned normally)

vars == << nexec, duration, defines_do, states, state, state_ret, nadds,
           raised, pc, count, begin_at, end_at, now, cname, attr_cls, trace,
           nsteps, ncalls, received, returned, fault_at, last_ret,
           chosen_from, switched, start, nexec_given, draw, acc_at_step,
           zero_dt, join_result >>

cfgVars == << nexec, duration, defines_do >>
regVars == << states, nadds >>
loopVars == << count, begin_at, end_at, now >>
stepVars == << cname, attr_cls >>
histVars == << ncalls, received, returned, last_ret, start >>
obsVars == << nexec_given, draw, acc_at_step, zero_dt, join_result >>

\* The sequences of at most n command classes, as add_state's *commands
RECURSIVE SeqsUpTo(_, _)
SeqsUpTo(S, n) ==
  IF n = 0 THEN {<< >>}
  ELSE LET shorter == SeqsUpTo(S, n - 1) IN
       shorter \cup {Append(q, x) : q \in {r \in shorter : Len(r) = n - 1},
                                    x \in S}

\* DFA.__init__; the caller's choice of nexec and duration
Init ==
  /\ nexec \in {None} \cup 1..MaxN
  /\ duration \in {None} \cup 1..MaxD
  /\ defines_do \in BOOLEAN
  /\ states = [n \in StateNames |-> NoInst]
  /\ state = NoInst
  /\ state_ret = None
  /\ nadds = 0
  /\ raised = "none"
  /\ pc = "idle"
  /\ count = 0 /\ begin_at = 0 /\ end_at = 0 /\ now = 0
  /\ cname = "" /\ attr_cls = ""
  /\ trace = << >>
  /\ nsteps = 0 /\ ncalls = 0 /\ received = None /\ returned = None
  /\ fault_at = "" /\ last_ret = None
  /\ chosen_from = NoInst /\ switched = "" /\ start = NoInst
  /\ nexec_given = nexec /\ draw = None /\ acc_at_step = None
  /\ zero_dt = FALSE /\ join_result = ""

\* DFA.add_state(state, *commands, is_start=...): the registry, the current
\* state and the error raised
AddState(registry, current, t, argv, is_start) ==
  IF ~IsStateSubclass(t)
  THEN [states |-> registry, state |-> current, err |-> "ValueError"]
  ELSE LET r == import_commands(
                  NewState(t, registry[Lower(t)].id + 1), argv)
           reg == [registry EXCEPT ![Lower(t)] = r.inst]
       IN IF r.err # "none"
          THEN [states |-> reg, state |-> current, err |-> r.err]
          ELSE [states |-> reg,
                state |-> IF is_start THEN r.inst ELSE current,
                err |-> "none"]

add_state ==
  /\ pc = "idle"
  /\ nadds < MaxAdds
  /\ \E t \in StateArgs, argv \in SeqsUpTo(CmdArgs, MaxCmds),
        is_start \in BOOLEAN :
       LET r == AddState(states, state, t, argv, is_start) IN
       /\ states' = r.states
       /\ state' = r.state
       /\ raised' = r.err
       /\ fault_at' = IF r.err = "none" THEN "" ELSE "add_state"
  /\ nadds' = nadds + 1
  /\ UNCHANGED << cfgVars, state_ret, pc, loopVars, stepVars, trace, nsteps,
                  histVars, chosen_from, switched, obsVars >>

\* The checks of drive_machine: the error raised, or the loop entered
DriveBranch(n, d, current) ==
  IF n = None /\ d = None THEN "ValueError"
  ELSE IF current.id = 0 THEN "NotInitializedError"
  ELSE IF d = None THEN "counter"
  ELSE "time"

\* `while count < self.nexec`
CounterContinues(c, n) == c < n

\* The loop test of _drive_time_machine with `<=`
TimeContinuesClosed(b, e, d) == e - b <= d

\* `while end_at - begin_at < self.duration`
TimeContinues(b, e, d) == e - b < d

drive_machine ==
  /\ pc = "idle"
  /\ LET b == DriveBranch(nexec, duration, state) IN
     /\ raised' = IF b \in {"counter", "time"} THEN "none" ELSE b
     /\ fault_at' = IF b \in {"counter", "time"} THEN "" ELSE "drive_machine"
     /\ pc' = IF \/ b = "counter" /\ CounterContinues(0, nexec)
                 \/ b = "time" /\ TimeContinues(now, now, duration)
              THEN "choose" ELSE "done"
     /\ count' = 0
     /\ begin_at' = IF b = "time" THEN now ELSE begin_at
     /\ end_at' = IF b = "time" THEN now ELSE end_at
  /\ start' = state
  /\ UNCHANGED << cfgVars, regVars, state, state_ret, now, stepVars, trace,
                  nsteps, ncalls, received, returned, last_ret, chosen_from,
                  switched, obsVars >>

\* ---------------------------------------------------------- _next_step
\* A fault raised by collaborator code (a hook's or a command's own body)
CollaboratorFault == "Fault"

\* The method of the chosen command that _next_step calls
CommandOp == "do"

\* Whether an instance of command class ctype has the method m: every
\* Command has `execute`, and `do` only where the subclass defines it
HasMethod(ctype, m) == m = "execute" \/ (m = "do" /\ defines_do)

\* A fault that is recorded while the run-loop goes on to its next test
AbortContinue(err, where) ==
  /\ raised' = err
  /\ fault_at' = where
  /\ pc' = "loop"

\* A run ends by a fault: drive_machine raises it to its caller
Abort(err, where) ==
  /\ raised' = err
  /\ fault_at' = where
  /\ pc' = "done"

\* Nothing is raised
NoFault == UNCHANGED << raised, fault_at >>

\* `cname = self.state.choose()` and `attr_list = dir(self.state)`
next_step_choose ==
  /\ pc = "choose"
  /\ nsteps < MaxSteps
  /\ nsteps' = nsteps + 1
  /\ trace' = << >>
  /\ chosen_from' = state
  /\ acc_at_step' = state_ret
  /\ \E a \in Draws(state) :
       LET r == choose(state, a) IN
       /\ draw' = a
       /\ IF r.err # "none"
          THEN /\ Abort(r.err, "choose")
               /\ UNCHANGED stepVars
          ELSE /\ cname' = r.name
               /\ attr_cls' = state.cls
               /\ pc' = "before"
               /\ NoFault
  /\ UNCHANGED << cfgVars, regVars, state, state_ret, loopVars, histVars,
                  switched, nexec_given, zero_dt, join_result >>

\* Calling the hook method `kind`_<cname> of the instance inst
CallHook(inst, kind) ==
  LET h == HookOf(inst.cls, kind, cname)
      sw == switch_state_to(states, state, h.to)
  IN /\ trace' = Append(trace, [op |-> kind, c |-> cname, on |-> inst.cls,
                                  id |-> inst.id])
     /\ \/ /\ h.op = "pass"
           /\ state' = state
           /\ nexec' = nexec
           /\ switched' = ""
           /\ NoFault
           /\ pc' = IF kind = "before" THEN "execute" ELSE "loop"
        \/ /\ h.op = "set_nexec"
           /\ state' = state
           /\ nexec' = 1
           /\ switched' = ""
           /\ NoFault
           /\ pc' = IF kind = "before" THEN "execute" ELSE "loop"
        \/ /\ h.op = "switch"
           /\ state' = sw.state
           /\ nexec' = nexec
           /\ switched' = IF kind = "after" /\ sw.err = "none" THEN h.to
                          ELSE ""
           /\ IF sw.err # "none"
              THEN Abort(sw.err, kind)
              ELSE /\ NoFault
                   /\ pc' = IF kind = "before" THEN "execute" ELSE "loop"
        \/ /\ state' = state
           /\ nexec' = nexec
           /\ switched' = ""
           /\ Abort(CollaboratorFault, kind)

\* `if 'before_%s' % cname in attr_list: getattr(self.state, ...)()`
next_step_before ==
  /\ pc = "before"
  /\ IF HasAttr(attr_cls, "before", cname)
     THEN CallHook(state, "before")
     ELSE /\ pc' = "execute"
          /\ switched' = ""
          /\ NoFault
          /\ UNCHANGED << nexec, state, trace >>
  /\ UNCHANGED << duration, defines_do, regVars, state_ret, loopVars,
                  stepVars, nsteps, histVars, chosen_from, obsVars >>

\* The command called without the accumulator
CallCommandNoArg(inst, c, acc) ==
  IF inst.commands[c] = "" THEN [arg |-> acc, ret |-> acc, err |-> "KeyError"]
  ELSE IF ~HasMethod(inst.commands[c], CommandOp)
       THEN [arg |-> acc, ret |-> acc, err |-> "AttributeError"]
       ELSE [arg |-> None, ret |-> Returns(inst.commands[c], None),
             err |-> "none"]

\* `self.state.commands[cname].do(self._state_ret)`: the argument passed,
\* the value returned and the error raised
CallCommand(inst, c, acc) ==
  IF inst.commands[c] = "" THEN [arg |-> acc, ret |-> acc, err |-> "KeyError"]
  ELSE IF ~HasMethod(inst.commands[c], CommandOp)
       THEN [arg |-> acc, ret |-> acc, err |-> "AttributeError"]
       ELSE [arg |-> acc, ret |-> Returns(inst.commands[c], acc),
             err |-> "none"]

\* `self._state_ret = self.state.commands[cname].do(self._state_ret)`
next_step_execute ==
  /\ pc = "execute"
  /\ LET r == CallCommand(state, cname, state_ret) IN
     IF r.err # "none"
     THEN /\ Abort(r.err, "execute")
          /\ UNCHANGED << state_ret, trace, histVars >>
     ELSE /\ trace' = Append(trace, [op |-> CommandOp, c |-> cname,
                                     on |-> state.cls, id |-> state.id])
          /\ \/ /\ state_ret' = r.ret
                /\ ncalls' = ncalls + 1
                /\ received' = r.arg
                /\ returned' = last_ret
                /\ last_ret' = Returns(state.commands[cname], r.arg)
                /\ start' = start
                /\ pc' = "after"
                /\ NoFault
             \/ /\ Abort(CollaboratorFault, "execute")
                /\ UNCHANGED << state_ret, histVars >>
  /\ UNCHANGED << cfgVars, regVars, state, loopVars, stepVars, nsteps,
                  chosen_from, switched, obsVars >>

\* `if 'after_%s' % cname in attr_list: getattr(self.state, ...)()`
next_step_after ==
  /\ pc = "after"
  /\ IF ~HasAttr(attr_cls, "after", cname)
     THEN /\ pc' = "loop"
          /\ NoFault
          /\ UNCHANGED << nexec, state, trace, switched >>
     ELSE IF ~HasAttr(state.cls, "after", cname)
          THEN /\ Abort("AttributeError", "after")
               /\ UNCHANGED << nexec, state, trace, switched >>
          ELSE CallHook(state, "after")
  /\ UNCHANGED << duration, defines_do, regVars, state_ret, loopVars,
                  stepVars, nsteps, histVars, chosen_from, obsVars >>

\* The step returned: `count += 1` or `end_at = time.time()`, then the test
\* of the while loop
loop_test ==
  /\ pc = "loop"
  /\ IF duration = None
     THEN /\ count' = count + 1
          /\ UNCHANGED << begin_at, end_at, now, zero_dt >>
          /\ pc' = IF CounterContinues(count', nexec) THEN "choose"
                   ELSE "done"
     ELSE /\ \E dt \in 0..MaxDt :
               /\ now' = now + dt
               /\ zero_dt' = (zero_dt \/ dt = 0)
          /\ end_at' = now'
          /\ UNCHANGED << count, begin_at >>
          /\ pc' = IF TimeContinues(begin_at, end_at', duration)
                   THEN "choose" ELSE "done"
  /\ UNCHANGED << cfgVars, regVars, state, state_ret, raised, fault_at,
                  stepVars, trace, nsteps, histVars, chosen_from, switched,
                  nexec_given, draw, acc_at_step, join_result >>

\* ------------------------------------------------------- StateMachine
\* StateMachine.run() is the body of a threading.Thread: it calls
\* self.dfa.drive_machine(), and whatever that raises ends the thread and
\* goes to the thread's excepthook, not to another thread. join() waits for
\* the thread to end and returns None; StateMachine keeps no record of the
\* exception. The action is the join() of a caller whose start() made the
\* run above.
join ==
  /\ pc = "done"
  /\ join_result = ""
  /\ join_result' = "none"
  /\ UNCHANGED << cfgVars, regVars, state, state_ret, raised, fault_at, pc,
                  loopVars, stepVars, trace, nsteps, histVars, chosen_from,
                  switched, nexec_given, draw, acc_at_step, zero_dt >>

Next ==
  \/ add_state
  \/ drive_machine
  \/ next_step_choose
  \/ next_step_before
  \/ next_step_execute
  \/ next_step_after
  \/ loop_test
  \/ join

Spec == Init /\ [][Next]_vars

\* The run-loop is sequential code: once drive_machine is in the loop, each
\* part of a step and each loop test is executed when the one before it has
\* returned.
RunLoop ==
  \/ next_step_choose
  \/ next_step_before
  \/ next_step_execute
  \/ next_step_after
  \/ loop_test

SpecFair == Spec /\ WF_vars(RunLoop)

\* ------------------------------------------------- choose() on any table
\* The weight tables of at most one entry per command name, with weights in
\* 0..MaxW, in every iteration order
WeightTables ==
  {w \in SeqsUpTo([n : CmdNames, w : 0..MaxW], Cardinality(CmdNames)) :
     \A i, j \in 1..Len(w) : i # j => w[i].n # w[j].n}

\* An instance of a State subclass without hooks whose class attribute
\* `weight` is w, after add_state imported C1, C2 and C3 into it
TableState(w) ==
  import_commands([NewState("State", 1) EXCEPT !.weight = w],
                  << "C1", "C2", "C3" >>).inst

\* A DFA(nexec=1) whose start state is such an instance, as drive_machine
\* enters the first step
InitChoose ==
  /\ nexec = 1 /\ duration = None /\ defines_do = TRUE
  /\ \E w \in WeightTables :
       /\ state = TableState(w)
       /\ states = [n \in StateNames |->
                     IF n = "state" THEN TableState(w) ELSE NoInst]
       /\ start = TableState(w)
  /\ state_ret = None
  /\ nadds = 1
  /\ raised = "none"
  /\ pc = "choose"
  /\ count = 0 /\ begin_at = 0 /\ end_at = 0 /\ now = 0
  /\ cname = "" /\ attr_cls = ""
  /\ trace = << >>
  /\ nsteps = 0 /\ ncalls = 0 /\ received = None /\ returned = None
  /\ fault_at = "" /\ last_ret = None
  /\ chosen_from = NoInst /\ switched = ""
  /\ nexec_given = nexec /\ draw = None /\ acc_at_step = None
  /\ zero_dt = FALSE /\ join_result = ""

NextChoose == next_step_choose

SpecChoose == InitChoose /\ [][NextChoose]_vars

\* ------------------------------------------------------------ properties
\* The operations the current step has called, in order
TraceOps == [i \in 1..Len(trace) |-> trace[i].op]

\* drive_machine entered a run-loop (it raised no configuration error)
RunStarted == pc # "idle" /\ fault_at # "drive_machine"

\* Only a maximum count is configured
CountOnly == nexec_given # None /\ duration = None

\* The run was aborted by a fault raised while a hook ran, or by a command's
\* own body
HookOrCommandFault ==
  \/ fault_at \in {"before", "after"}
  \/ fault_at = "execute" /\ raised = CollaboratorFault

\* The run was aborted because choose() failed, or because the chosen
\* command is not a command of the current state
SelectionOrLookupFault ==
  \/ fault_at = "choose"
  \/ fault_at = "execute" /\ raised = "KeyError"

\* C1: a count-bounded run (nexec = N, no duration, a start state assigned)
\* in which no hook and no command faults, and no selection fails, performs
\* exactly N steps and N command executions, and then terminates.
C1_CountBoundedRunsExactlyN ==
  (/\ pc = "done" /\ RunStarted /\ CountOnly
   /\ ~HookOrCommandFault /\ ~SelectionOrLookupFault)
  => (nsteps = nexec_given /\ ncalls = nexec_given)

\* C2: in every step for a command whose state defines both before_c and
\* after_c, once the step is past the command call the calls it has made are
\* the pre-hook and then the command's execute, and when it returns they are
\* exactly pre-hook, execute, post-hook.
C2_HookExecuteHookOrder ==
  (/\ HasAttr(attr_cls, "before", cname) /\ HasAttr(attr_cls, "after", cname)
   /\ ~HookOrCommandFault /\ ~SelectionOrLookupFault)
  => /\ pc = "loop" => TraceOps = << "before", "execute", "after" >>
     /\ (pc = "done" /\ fault_at = "execute") => TraceOps = << "before", "execute" >>

\* C5: a command class that implements only `execute` never makes the step
\* that selects it fail in the engine's call of the command.
C5_ExecuteOnlyCommandRuns ==
  ~defines_do => ~(fault_at = "execute" /\ raised = "AttributeError")

\* C6: a step selects a command and calls a hook or a command only when
\* exactly one of nexec and duration is configured and a start state is
\* assigned.
C6_StepsOnlyWithOneStopCondition ==
  (cname # "" /\ trace # << >>)
  => ((nexec_given = None) # (duration = None)) /\ start.id # 0

\* The names a State instance has a command under
ImportedNames(inst) == {c \in CmdNames : inst.commands[c] # ""}

\* C3: when the post-hook of a step has switched to the registered state X,
\* the next step's choose() is X's, and the name it selects is a key of X's
\* weight table.
C3_NextSelectionFromSwitchedState ==
  (switched # "" /\ (pc = "before" \/ (pc = "done" /\ fault_at = "choose")))
  => /\ chosen_from = states[switched]
     /\ pc = "before" => cname \in WeightKeys(states[switched].weight)

C3_Witness ==
  /\ switched = "s2" /\ pc = "before" /\ start.cls = "S1"
  /\ chosen_from.cls = "S2" /\ cname = "c1"

\* C4: every command operation receives what the command operation before
\* it returned (None for the first), and between the calls the accumulator
\* stays what the last one returned.
C4_AccumulatorThreading ==
  /\ ncalls > 0 => received = returned
  /\ state_ret = last_ret

C4_Witness ==
  /\ ncalls = 2 /\ received = 1 /\ returned = 1 /\ switched # ""

\* C7: an add_state call that registers a state whose weight table has a
\* key naming no imported command raises an error and does not make that
\* state current; and no run starts on such a state.
C7_WeightCoverage ==
  [][/\ \A n \in StateNames :
          (/\ states'[n] # states[n]
           /\ ~(WeightKeys(states'[n].weight) \subseteq
                  ImportedNames(states'[n])))
          => (raised' # "none" /\ fault_at' = "add_state" /\ state' = state)
     /\ (pc = "idle" /\ pc' # "idle" /\ fault_at' # "drive_machine")
          => WeightKeys(state'.weight) \subseteq ImportedNames(state')
    ]_vars

C7_Witness ==
  /\ nadds = 1 /\ raised = "ValueError" /\ fault_at = "add_state"
  /\ states["s1"].id = 1 /\ ImportedNames(states["s1"]) = {"c2"}
  /\ state = NoInst

\* C9: switch_state_to(name), called by a hook with a name that is not in
\* the registry, raises DoesNotFound and leaves the current state, the
\* registry and the accumulator as they were.
HookSwitchesToUnregistered ==
  /\ pc \in {"before", "after"}
  /\ HasAttr(attr_cls, pc, cname)
  /\ HookOf(state.cls, pc, cname).op = "switch"
  /\ states[HookOf(state.cls, pc, cname).to].id = 0

C9_UnregisteredSwitchFails ==
  [][(HookSwitchesToUnregistered /\ raised' # CollaboratorFault)
       => /\ raised' = "DoesNotFound" /\ pc' = "done"
          /\ state' = state /\ states' = states /\ state_ret' = state_ret
    ]_vars

C9_Witness ==
  /\ raised = "DoesNotFound" /\ fault_at = "after" /\ state.cls = "S1"
  /\ states["s2"].id = 0 /\ state = chosen_from /\ state_ret = 2

\* C10: in the docstring's scenario (S1 with C2, C3 as start state, S2 with
\* C1, C3, a count-bounded run) every selected name is a key of the weight
\* table of the state that was current when it was selected, and the
\* current state is always the registered S1 or the registered S2.
Scenario ==
  /\ CountOnly /\ RunStarted
  /\ states["s1"] = import_commands(NewState("S1", 1), << "C2", "C3" >>).inst
  /\ states["s2"] = import_commands(NewState("S2", 1), << "C1", "C3" >>).inst
  /\ \A n \in StateNames \ {"s1", "s2"} : states[n].id = 0
  /\ start = states["s1"]

C10_ScenarioSelections ==
  Scenario
  => /\ state \in {states["s1"], states["s2"]}
     /\ pc \in {"before", "execute", "after", "loop"}
          => /\ cname \in WeightKeys(chosen_from.weight)
             /\ chosen_from \in {states["s1"], states["s2"]}
             /\ pc # "loop" => chosen_from = state

C10_Witness ==
  /\ Scenario /\ nsteps = 2 /\ pc = "loop" /\ state = states["s1"]
  /\ chosen_from = states["s2"] /\ cname = "c1"

\* C8: choose() on a state whose weight table is empty or sums to zero
\* raises an error for every draw, and returns no command name.
C8_ZeroWeightSelectionFails ==
  (nsteps > 0 /\ TotalWeight(chosen_from.weight) = 0)
  => (pc = "done" /\ fault_at = "choose" /\ raised # "none" /\ cname = "")

C8_Witness ==
  /\ pc = "done" /\ fault_at = "choose" /\ raised = "ValueError"
  /\ Len(chosen_from.weight) = 2 /\ TotalWeight(chosen_from.weight) = 0

\* drive_machine took the duration strategy
TimedRun == RunStarted /\ duration # None

\* The elapsed time as the run-loop last measured it
Elapsed == end_at - begin_at

\* C11: in a duration-bounded run with maximum D, a step begins, and is in
\* progress, only while the elapsed time measured at the start or after the
\* previous completed step is strictly less than D; the elapsed time is
\* measured only when a step has completed; the run ends at the first such
\* measurement that is at least D, so a run that returns has elapsed >= D;
\* and a run whose steps all take non-zero time terminates.
C11_DurationBoundedRun ==
  /\ [](TimedRun =>
          /\ pc \in {"choose", "before", "execute", "after", "loop"}
               => Elapsed < duration
          /\ (pc = "done" /\ raised = "none") => Elapsed >= duration)
  /\ [][TimedRun =>
          /\ nsteps' > nsteps => Elapsed < duration
          /\ end_at' # end_at => pc = "loop"
          /\ pc = "loop" => (pc' = "done" <=> Elapsed' >= duration)
       ]_vars
  /\ (TimedRun ~> (pc = "done" \/ zero_dt))

C11_Witness ==
  /\ TimedRun /\ pc = "done" /\ raised = "none" /\ ~zero_dt
  /\ duration = 2 /\ Elapsed = 3 /\ nsteps = 2

\* A fault was raised inside a step, by a hook, by the command call or by
\* the lookups around them
StepFault == fault_at \in {"before", "execute", "after"} /\ raised # "none"

\* C12: a fault raised in a step by the pre-hook, by the command or by the
\* post-hook ends the run in either stop strategy: drive_machine raises it
\* to its caller, the rest of the step is not executed (no command call
\* after a pre-hook fault, no post-hook after a command fault), and from
\* then on no step begins, nothing is called or retried, and the loop
\* variables, the current state and the accumulator no longer change.
C12_FaultAbortsRun ==
  /\ [](StepFault =>
          /\ pc = "done"
          /\ fault_at = "before"
               => \A i \in 1..Len(trace) : trace[i].op = "before"
          /\ fault_at = "execute"
               => \A i \in 1..Len(trace) : trace[i].op # "after")
  /\ [][StepFault =>
          UNCHANGED << raised, fault_at, pc, nsteps, ncalls, trace, cname,
                       state, state_ret, count, end_at >>
       ]_vars

C12_Witness ==
  /\ StepFault /\ TimedRun /\ pc = "done" /\ nsteps = 2
  /\ fault_at = "after" /\ raised = CollaboratorFault
  /\ TraceOps = << "before", CommandOp, "after" >> /\ join_result = "none"

\* C13: when the run is made through StateMachine (start(), then join()),
\* a fault that aborted the run-loop is surfaced to the caller that joins:
\* join() raises it, so the joiner observes that the run failed.
C13_DriverSurfacesFault ==
  (join_result # "" /\ RunStarted /\ raised # "none") => join_result = raised

\* The *commands of an add_state call that pass two distinct Command
\* subclasses whose names are the same in lower case
DuplicateArgvs ==
  {argv \in SeqsUpTo(CmdTypes, MaxCmds) :
     \E i, j \in 1..Len(argv) :
       i < j /\ argv[i] # argv[j] /\ Lower(argv[i]) = Lower(argv[j])}

\* C14: an add_state call whose command classes include two that derive
\* the same lower-case name fails with an error; the second command does
\* not silently replace the first.
C14_DuplicateCommandNamesRejected ==
  [][nadds' # nadds =>
       \A t \in StateTypes, argv \in DuplicateArgvs, is_start \in BOOLEAN :
         LET r == AddState(states, state, t, argv, is_start) IN
         (states' = r.states /\ state' = r.state /\ raised' = r.err)
         => (raised' # "none" /\ fault_at' = "add_state")
    ]_vars

\* The sum of the first k weights of the table w
RECURSIVE PrefixWeight(_, _)
PrefixWeight(w, k) == IF k = 0 THEN 0 ELSE PrefixWeight(w, k - 1) + w[k].w

\* The entries of w whose half-open interval [running sum, running sum +
\* weight) contains a
Covering(w, a) ==
  {i \in 1..Len(w) : PrefixWeight(w, i - 1) <= a /\ a < PrefixWeight(w, i)}

\* C15: for a weight table of non-negative integer weights with a positive
\* total, whose keys all name imported commands, and a draw a with
\* 0 <= a < total, choose() returns the name of the first entry whose
\* half-open interval contains a; it does not fail, and the entry it
\* returns has a positive weight and is a command of the state.
C15_ChooseFirstCoveringEntry ==
  (/\ nsteps > 0 /\ TotalWeight(chosen_from.weight) > 0
   /\ draw \in 0..(TotalWeight(chosen_from.weight) - 1))
  => LET w == chosen_from.weight
         first == CHOOSE i \in Covering(w, draw) :
                    \A j \in Covering(w, draw) : i <= j
     IN /\ Covering(w, draw) # {}
        /\ pc = "before" /\ raised = "none"
        /\ cname = w[first].n
        /\ w[first].w > 0
        /\ chosen_from.commands[cname] # ""

C15_Witness ==
  /\ pc = "before" /\ draw = 2 /\ Len(chosen_from.weight) = 3
  /\ chosen_from.weight[1].w = 0 /\ chosen_from.weight[2].w = 2
  /\ cname = chosen_from.weight[3].n

\* Every add_state call so far imported all the commands its state's weight
\* table names
RegistryImported ==
  \A n \in StateNames :
    WeightKeys(states[n].weight) \subseteq ImportedNames(states[n])

\* C16: every call a step makes (pre-hook, command, post-hook) is made on
\* the State instance that was current when the step began, whatever
\* switch_state_to calls happened during the step.
C16_StepResolvedOnStartState ==
  RegistryImported
  => \A i \in 1..Len(trace) :
       trace[i].on = chosen_from.cls /\ trace[i].id = chosen_from.id

\* C17: a count-bounded run uses the nexec that was configured when the
\* loop started: a run during which a hook assigned another value to
\* dfa.nexec, and which no fault aborted, still performs the configured
\* number of steps.
C17_CountReadOnce ==
  (/\ pc = "done" /\ RunStarted /\ CountOnly /\ raised = "none"
   /\ nexec # nexec_given)
  => nsteps = nexec_given

\* C18: when a fault raised anywhere in a step (selection, pre-hook,
\* command, post-hook) has aborted the run, the accumulator and the current
\* state are the ones the DFA had when that step began.
C18_StepAllOrNothing ==
  (/\ pc = "done" /\ raised # "none" /\ RegistryImported
   /\ fault_at \in {"choose", "before", "execute", "after"})
  => (state_ret = acc_at_step /\ state = chosen_from)

\* C19: an add_state call that raises (the state argument is not a State
\* subclass, a command argument is not a Command subclass, or a weight key
\* names no imported command) leaves the registry and the current state
\* exactly as they were before the call.
C19_FailedAddStateChangesNothing ==
  [][(nadds' # nadds /\ raised' # "none")
       => (states' = states /\ state' = state)
    ]_vars

\* C20: after any add_state calls, switch_state_to calls and steps, the
\* current state is unassigned or is the instance the registry holds under
\* its name; and the current state is reassigned only by an add_state call
\* that returns, and by a hook's switch_state_to call that returns.
C20_CurrentStateIsRegistered ==
  /\ [](state.id # 0 => state = states[Lower(state.cls)])
  /\ [][state' # state =>
          \/ nadds' # nadds /\ raised' = "none"
          \/ /\ pc \in {"before", "after"}
             /\ HookOf(state.cls, pc, cname).op = "switch"
             /\ raised' = "none"
       ]_vars

====
